---- MODULE Spec2Model ----
(***************************************************************************)
(* A model of the PC monitor of src/1224.py (lines 282-713): the SQLite    *)
(* repository MetricsRepository, the chart MetricChart with its rolling    *)
(* history, and the sampling application PcMonitorApp.                     *)
(*                                                                         *)
(* Python floats are modelled as exact rationals <<n, d>> in lowest terms  *)
(* (d > 0); None is the empty tuple.  Rounding of binary floating point    *)
(* is outside the model.                                                   *)
(***************************************************************************)
EXTENDS Integers, Sequences, FiniteSets, TLC

VARIABLES chart, pushed, platform, ret, store, opened, runs, settled,
          pc, tick, now, timer, conn, closes, charts, host, world, sample, pushes, ins

chartVars == <<chart, pushed>>
tempVars == <<platform, ret>>
schemaVars == <<store, opened, runs, settled>>
appVars == <<pc, tick, now, timer, conn, closes, charts, host, world, sample, pushes, ins>>
vars == <<chart, pushed, platform, ret, store, opened, runs, settled,
          pc, tick, now, timer, conn, closes, charts, host, world, sample, pushes, ins>>

(***************************************************************************)
(* Bounds of the model.                                                    *)
(***************************************************************************)
\* Capacity of a chart history; the source default is 90 (line 366).
max_points == 2
\* Pushes made beyond the capacity in SpecChart.
ExtraPushes == 2
\* Fragments concatenated into the output of the external tool in SpecTemp.
MaxFragments == 2
\* Entries of the thermal-zone directory in SpecTemp.
MaxZones == 2
\* Rows already in the store file when it is opened.
MaxOldRows == 2
\* Runs of create_schema in SpecSchema.
MaxRuns == 3
\* Ticks of the sampling loop in Spec.
MaxTicks == 2
\* Calls of insert_measurement in SpecStore.
MaxInserts == 2

(***************************************************************************)
(* Floats and None.                                                        *)
(***************************************************************************)
None == <<>>

Abs(x) == IF x < 0 THEN -x ELSE x

RECURSIVE GCD(_, _)
GCD(a, b) == IF b = 0 THEN a ELSE GCD(b, a % b)

\* The float n/d (d > 0), in lowest terms.
Float(n, d) == LET g == GCD(Abs(n), d) IN <<n \div g, d \div g>>

FAdd(a, b) == Float(a[1] * b[2] + b[1] * a[2], a[2] * b[2])

\* a / k for a positive integer k.
FDiv(a, k) == Float(a[1], a[2] * k)

\* a * k for an integer k.
FMul(a, k) == Float(a[1] * k, a[2])

FLe(a, b) == a[1] * b[2] <= b[1] * a[2]

FLt(a, b) == a[1] * b[2] < b[1] * a[2]

RECURSIVE sum(_)
sum(values) == IF values = <<>> THEN Float(0, 1) ELSE FAdd(Head(values), sum(Tail(values)))

\* sum(values) / len(values), for a non-empty list.
Mean(values) == FDiv(sum(values), Len(values))

\* f"{value:.1f}": the number of tenths nearest to value (ties to even).
Fmt1(value) ==
    LET n == value[1] * 10
        d == value[2]
        q == n \div d
        r == n % d
    IN  IF 2 * r < d THEN q
        ELSE IF 2 * r > d THEN q + 1
        ELSE IF q % 2 = 0 THEN q ELSE q + 1

(***************************************************************************)
(* MetricChart (lines 355-490).  A display text is [fmt, arg]: the format  *)
(* string and the formatted number of tenths (<<>> when the text has no    *)
(* number).                                                                *)
(***************************************************************************)
Text(fmt, arg) == [fmt |-> fmt, arg |-> arg]

\* A list that grows with every append.
deque_append_Unbounded(history, value, maxlen) == Append(history, value)

\* collections.deque(maxlen).append: the oldest element leaves a full deque.
deque_append(history, value, maxlen) ==
    IF Len(history) >= maxlen
    THEN SubSeq(history, Len(history) - maxlen + 2, Len(history)) \o <<value>>
    ELSE Append(history, value)

\* A chart whose history starts empty.
MetricChart_Empty(unit) ==
    [history   |-> <<>>,
     value_var |-> Text("value: {:.1f}", <<Fmt1(Float(0, 1))>>),
     unit      |-> unit]

\* deque([0.0] * max_points, maxlen=max_points) and the initial value text.
MetricChart(unit) ==
    [history   |-> [i \in 1..max_points |-> Float(0, 1)],
     value_var |-> Text("value: {:.1f}", <<Fmt1(Float(0, 1))>>),
     unit      |-> unit]

\* update_value(value, display_text): display_text is None or a text.
update_value(c, value, display_text) ==
    [c EXCEPT
        !.history   = deque_append(c.history, value, max_points),
        !.value_var = IF display_text = None
                      THEN Text("value: {:.1f}", <<Fmt1(value)>>)
                      ELSE display_text]

(***************************************************************************)
(* Text handling.  A text is a sequence of characters; "deg" stands for    *)
(* the degree sign U+00B0.                                                 *)
(***************************************************************************)
Digits == <<"0", "1", "2", "3", "4", "5", "6", "7", "8", "9">>

IsDigit(ch) == \E i \in 1..Len(Digits) : Digits[i] = ch

DigitVal(ch) == (CHOOSE i \in 1..Len(Digits) : Digits[i] = ch) - 1

\* \s of the regular expression.
IsSpace(ch) == ch \in {" ", "\t", "\n", "\r"}

\* The character at position i, or "" past the end of the text.
At(t, i) == IF i >= 1 /\ i <= Len(t) THEN t[i] ELSE ""

\* The first position >= i that holds no digit.
RECURSIVE SkipDigits(_, _)
SkipDigits(t, i) == IF IsDigit(At(t, i)) THEN SkipDigits(t, i + 1) ELSE i

\* The first position >= i that holds no whitespace.
RECURSIVE SkipSpaces(_, _)
SkipSpaces(t, i) == IF IsSpace(At(t, i)) THEN SkipSpaces(t, i + 1) ELSE i

\* The integer written by a sequence of digits.
RECURSIVE DigitsToInt(_)
DigitsToInt(ds) ==
    IF ds = <<>> THEN 0
    ELSE 10 * DigitsToInt(SubSeq(ds, 1, Len(ds) - 1)) + DigitVal(ds[Len(ds)])

RECURSIVE Pow10(_)
Pow10(k) == IF k = 0 THEN 1 ELSE 10 * Pow10(k - 1)

\* float(match) for a match of [+-]?\d+(?:\.\d+)?
float_of_match(m) ==
    LET signed  == At(m, 1) \in {"+", "-"}
        body    == IF signed THEN Tail(m) ELSE m
        intEnd  == SkipDigits(body, 1)
        intPart == DigitsToInt(SubSeq(body, 1, intEnd - 1))
        frac    == SubSeq(body, intEnd + 1, Len(body))
        mag     == Float(intPart * Pow10(Len(frac)) + DigitsToInt(frac), Pow10(Len(frac)))
    IN  IF At(m, 1) = "-" THEN Float(-mag[1], mag[2]) ELSE mag

\* The pattern with the degree sign required: ([+-]?\d+(?:\.\d+)?)\s*(deg)C.
MatchAt_DegreeRequired(t, i) ==
    LET p1 == IF At(t, i) \in {"+", "-"} THEN i + 1 ELSE i
        p2 == SkipDigits(t, p1)
        p3 == IF At(t, p2) = "." /\ IsDigit(At(t, p2 + 1))
              THEN SkipDigits(t, p2 + 1) ELSE p2
        p4 == SkipSpaces(t, p3)
    IN  [ok        |-> p2 > p1 /\ At(t, p4) = "deg" /\ At(t, p4 + 1) = "C",
         group_end |-> p3,
         end       |-> p4 + 2]

\* One attempt of the pattern ([+-]?\d+(?:\.\d+)?)\s*(deg)?C at position i:
\* [ok, group_end, end], the group being t[i .. group_end - 1].  Every
\* quantifier is greedy; a shorter choice never leads to a match, because
\* the character it gives up is a digit, a dot, a space or a degree sign,
\* none of which the rest of the pattern accepts in its place.
MatchAt(t, i) ==
    LET p1 == IF At(t, i) \in {"+", "-"} THEN i + 1 ELSE i
        p2 == SkipDigits(t, p1)
        p3 == IF At(t, p2) = "." /\ IsDigit(At(t, p2 + 1))
              THEN SkipDigits(t, p2 + 1) ELSE p2
        p4 == SkipSpaces(t, p3)
        p5 == IF At(t, p4) = "deg" THEN p4 + 1 ELSE p4
    IN  [ok        |-> p2 > p1 /\ At(t, p5) = "C",
         group_end |-> p3,
         end       |-> p5 + 1]

\* re.findall: the groups of the non-overlapping matches, left to right.
RECURSIVE findall(_, _)
findall(t, i) ==
    IF i > Len(t) THEN <<>>
    ELSE LET m == MatchAt(t, i)
         IN  IF m.ok
             THEN <<SubSeq(t, i, m.group_end - 1)>> \o findall(t, m.end)
             ELSE findall(t, i + 1)

\* The range check with exclusive bounds.
InPlausibleRange_Exclusive(value) == FLt(Float(-20, 1), value) /\ FLt(value, Float(150, 1))

\* -20.0 <= value <= 150.0
InPlausibleRange(value) == FLe(Float(-20, 1), value) /\ FLe(value, Float(150, 1))

\* The loop of lines 568-574 over the matches.
RECURSIVE FilterMatches(_)
FilterMatches(matches) ==
    IF matches = <<>> THEN <<>>
    ELSE LET value == float_of_match(Head(matches))
         IN  IF InPlausibleRange(value)
             THEN <<value>> \o FilterMatches(Tail(matches))
             ELSE FilterMatches(Tail(matches))

_extract_temp_values_from_text(raw_text) == FilterMatches(findall(raw_text, 1))

(***************************************************************************)
(* Results of calls: a value, or an exception that leaves the function.    *)
(***************************************************************************)
Return(v) == [raised |-> FALSE, value |-> v]

Raise == [raised |-> TRUE, value |-> None]

(***************************************************************************)
(* The external tool `sensors`.  tool.kind is what subprocess.run does:    *)
(* "not_found" (FileNotFoundError), "timeout" (TimeoutExpired, a           *)
(* SubprocessError), "os_error" (another OSError, e.g. PermissionError,    *)
(* which the except clause does not name) or "ran" with returncode and     *)
(* stdout.                                                                 *)
(***************************************************************************)
\* The tool's output parsed whatever its exit status.
read_cpu_temp_from_lm_sensors_AnyStatus(tool) ==
    IF tool.kind \in {"not_found", "timeout"} THEN Return(None)
    ELSE IF tool.kind = "os_error" THEN Raise
    ELSE IF tool.stdout = <<>> THEN Return(None)
    ELSE LET values == _extract_temp_values_from_text(tool.stdout)
         IN  IF values = <<>> THEN Return(None) ELSE Return(Mean(values))

_read_cpu_temp_from_lm_sensors(tool) ==
    IF tool.kind \in {"not_found", "timeout"} THEN Return(None)
    ELSE IF tool.kind = "os_error" THEN Raise
    ELSE IF tool.returncode # 0 \/ tool.stdout = <<>> THEN Return(None)
    ELSE LET values == _extract_temp_values_from_text(tool.stdout)
         IN  IF values = <<>> THEN Return(None) ELSE Return(Mean(values))

(***************************************************************************)
(* The thermal-zone tree.  sysfs = [isdir, listable, entries]; an entry is *)
(* [name, temp, type]: temp.kind is "missing", "unreadable", "garbage" or  *)
(* "number" (with raw), type.kind is "missing", "unreadable" or "text".    *)
(***************************************************************************)
startswith_thermal_zone(name) == name \in {"thermal_zone0", "thermal_zone1", "thermal_zone2"}

Lower(ch) ==
    CASE ch = "C" -> "c"
      [] ch = "P" -> "p"
      [] ch = "U" -> "u"
      [] OTHER -> ch

RECURSIVE lstrip(_)
lstrip(t) == IF t # <<>> /\ IsSpace(Head(t)) THEN lstrip(Tail(t)) ELSE t

RECURSIVE rstrip(_)
rstrip(t) ==
    IF t # <<>> /\ IsSpace(t[Len(t)]) THEN rstrip(SubSeq(t, 1, Len(t) - 1)) ELSE t

strip(t) == lstrip(rstrip(t))

lower(t) == [i \in 1..Len(t) |-> Lower(t[i])]

\* sub in t, for sequences of characters.
Contains(t, sub) ==
    \E i \in 1..(Len(t) - Len(sub) + 1) : SubSeq(t, i, i + Len(sub) - 1) = sub

\* Lines 615-621: the lower-cased label, "" when it cannot be read.
ZoneType(type) == IF type.kind = "text" THEN lower(strip(type.text)) ELSE <<>>

\* The label test without the exemption of the empty label.
NotCpuRelated_EmptyToo(zone_type) ==
    /\ ~Contains(zone_type, <<"c", "p", "u">>)
    /\ ~Contains(zone_type, <<"x", "8", "6">>)
    /\ ~Contains(zone_type, <<"p", "a", "c", "k", "a", "g", "e">>)

\* Line 636: the label is known and names nothing of the CPU.
NotCpuRelated(zone_type) ==
    /\ zone_type # <<>>
    /\ ~Contains(zone_type, <<"c", "p", "u">>)
    /\ ~Contains(zone_type, <<"x", "8", "6">>)
    /\ ~Contains(zone_type, <<"p", "a", "c", "k", "a", "g", "e">>)

\* The scaling applied to every value above the plausible range.
Normalize_Above150(value) == IF FLt(Float(150, 1), value) THEN FDiv(value, 1000) ELSE value

\* Lines 630-632: millidegrees to degrees.
Normalize(value) == IF FLt(Float(1000, 1), value) THEN FDiv(value, 1000) ELSE value

\* The loop body forgetting the values collected so far when a temp file
\* cannot be read or parsed.
ScanEntry_ForgetOnFailure(values, entry) ==
    IF ~startswith_thermal_zone(entry.name) THEN values
    ELSE IF entry.temp.kind = "missing" THEN values
    ELSE IF entry.temp.kind \in {"unreadable", "garbage"} THEN <<>>
    ELSE LET zone_type == ZoneType(entry.type)
             value == Normalize(Float(entry.temp.raw, 1))
         IN  IF InPlausibleRange(value)
             THEN IF NotCpuRelated(zone_type) THEN values ELSE Append(values, value)
             ELSE values

\* One pass of the loop body of lines 607-638: the values list after entry.
ScanEntry(values, entry) ==
    IF ~startswith_thermal_zone(entry.name) THEN values
    ELSE IF entry.temp.kind = "missing" THEN values
    ELSE IF entry.temp.kind \in {"unreadable", "garbage"} THEN values
    ELSE LET zone_type == ZoneType(entry.type)
             value == Normalize(Float(entry.temp.raw, 1))
         IN  IF InPlausibleRange(value)
             THEN IF NotCpuRelated(zone_type) THEN values ELSE Append(values, value)
             ELSE values

RECURSIVE ScanEntries(_, _)
ScanEntries(values, entries) ==
    IF entries = <<>> THEN values
    ELSE ScanEntries(ScanEntry(values, Head(entries)), Tail(entries))

_read_cpu_temp_from_sysfs(sysfs) ==
    IF ~sysfs.isdir THEN Return(None)
    ELSE IF ~sysfs.listable THEN Raise
    ELSE LET values == ScanEntries(<<>>, sysfs.entries)
         IN  IF values = <<>> THEN Return(None) ELSE Return(Mean(values))

(***************************************************************************)
(* read_cpu_temperature.  psutil = [raises, groups]: groups is the list of *)
(* sensor groups, each a list of "current" readings (a float or None).     *)
(* The result carries calls, the methods invoked in order.                 *)
(***************************************************************************)
RECURSIVE Flatten(_)
Flatten(groups) == IF groups = <<>> THEN <<>> ELSE Head(groups) \o Flatten(Tail(groups))

\* The readings with the plausibility range applied.
SensorValues_Plausible(psutil) ==
    LET temps == IF psutil.raises THEN <<>> ELSE psutil.groups
    IN  SelectSeq(Flatten(temps),
                  LAMBDA current : IF current = None THEN FALSE
                                   ELSE InPlausibleRange(current))

\* Lines 647-657: every reading that is not None.
SensorValues(psutil) ==
    LET temps == IF psutil.raises THEN <<>> ELSE psutil.groups
    IN  SelectSeq(Flatten(temps), LAMBDA current : current # None)

\* Both fallbacks evaluated before either result is looked at.
Fallbacks_Eager(p) ==
    LET fallback_value == _read_cpu_temp_from_lm_sensors(p.tool)
        last == _read_cpu_temp_from_sysfs(p.sysfs)
    IN  [raised |-> fallback_value.raised \/ last.raised,
         value  |-> IF fallback_value.value # None THEN fallback_value.value ELSE last.value,
         calls  |-> <<"psutil", "lm_sensors", "sysfs">>]

\* Lines 662-666, reached when the sensor API gave no reading.
Fallbacks(p) ==
    LET fallback_value == _read_cpu_temp_from_lm_sensors(p.tool)
    IN  IF fallback_value.raised
        THEN [raised |-> TRUE, value |-> None, calls |-> <<"psutil", "lm_sensors">>]
        ELSE IF fallback_value.value # None
        THEN [raised |-> FALSE, value |-> fallback_value.value,
              calls |-> <<"psutil", "lm_sensors">>]
        ELSE LET last == _read_cpu_temp_from_sysfs(p.sysfs)
             IN  [raised |-> last.raised, value |-> last.value,
                  calls |-> <<"psutil", "lm_sensors", "sysfs">>]

read_cpu_temperature(p) ==
    LET values == SensorValues(p.psutil)
    IN  IF values # <<>>
        THEN [raised |-> FALSE, value |-> Mean(values), calls |-> <<"psutil">>]
        ELSE Fallbacks(p)

(***************************************************************************)
(* MetricsRepository (lines 295-352).  The store file is                   *)
(*   [exists, columns, rows, pending, seq]:                                *)
(* whether the table measurements exists, its column names in table_info   *)
(* order, its committed rows (functions from the column names to values,   *)
(* SQL NULL being None), the rows of the open transaction, and the last id *)
(* given out by AUTOINCREMENT.  Data definition statements run outside a   *)
(* transaction, so each takes effect as soon as it has run.                *)
(***************************************************************************)
\* The column list of CREATE TABLE, lines 308-316.
CurrentColumns ==
    <<"id", "captured_at", "cpu_percent", "ram_percent",
      "gpu_load_percent", "gpu_temp_c", "cpu_temp_c">>

\* The column list of the earlier version, lines 744-751.
EarlierColumns ==
    <<"id", "captured_at", "cpu_percent", "ram_percent",
      "gpu_load_percent", "gpu_temp_c">>

\* A file from before the GPU columns, the case line 319 provides for.
OldestColumns == <<"id", "captured_at", "cpu_percent", "ram_percent">>

\* A file without the GPU temperature alone, the case line 320 provides for.
WithoutGpuTempColumns ==
    <<"id", "captured_at", "cpu_percent", "ram_percent",
      "gpu_load_percent", "cpu_temp_c">>

\* A file without both temperatures, the case lines 320-321 provide for.
WithoutTempColumns ==
    <<"id", "captured_at", "cpu_percent", "ram_percent", "gpu_load_percent">>

Range(f) == {f[i] : i \in DOMAIN f}

NoTable == [exists |-> FALSE, columns |-> <<>>, rows |-> <<>>, pending |-> <<>>, seq |-> 0]

\* CREATE TABLE IF NOT EXISTS measurements (...), lines 306-318.
\* A state of a run is [raised, store]; fail names the statement that
\* raises when it has to write ("none": no statement raises).
create_table(st, fail) ==
    IF st.raised \/ st.store.exists THEN st
    ELSE IF fail = "create" THEN [st EXCEPT !.raised = TRUE]
    ELSE [st EXCEPT !.store = [NoTable EXCEPT !.exists = TRUE,
                                              !.columns = CurrentColumns]]

\* The table made anew with the wider column list.
add_column_Recreate(s, column) ==
    [s EXCEPT !.columns = Append(s.columns, column), !.rows = <<>>, !.seq = 0]

\* ALTER TABLE measurements ADD COLUMN column: every row shows NULL in it.
add_column(s, column) ==
    [s EXCEPT
        !.columns = Append(s.columns, column),
        !.rows = [i \in 1..Len(s.rows) |->
                     [c \in DOMAIN s.rows[i] \cup {column} |->
                         IF c = column THEN None ELSE s.rows[i][c]]]]

\* The column added whether or not the table has it already.
ensure_column_Always(st, column, fail) ==
    IF st.raised THEN st
    ELSE IF fail = column THEN [st EXCEPT !.raised = TRUE]
    ELSE [st EXCEPT !.store = add_column(st.store, column)]

\* _ensure_column, lines 324-329.
_ensure_column(st, column, fail) ==
    IF st.raised THEN st
    ELSE LET existing == Range(st.store.columns)
         IN  IF column \in existing THEN st
             ELSE IF fail = column THEN [st EXCEPT !.raised = TRUE]
             ELSE [st EXCEPT !.store = add_column(st.store, column)]

\* A run that reports no failure of its statements.
create_schema_Swallow(s, fail) ==
    LET s0 == create_table([raised |-> FALSE, store |-> s], fail)
        s1 == _ensure_column(s0, "gpu_load_percent", fail)
        s2 == _ensure_column(s1, "gpu_temp_c", fail)
        s3 == _ensure_column(s2, "cpu_temp_c", fail)
    IN  [s3 EXCEPT !.raised = FALSE]

\* create_schema, lines 305-322: [raised, store] after the run.
create_schema(s, fail) ==
    LET s0 == create_table([raised |-> FALSE, store |-> s], fail)
        s1 == _ensure_column(s0, "gpu_load_percent", fail)
        s2 == _ensure_column(s1, "gpu_temp_c", fail)
        s3 == _ensure_column(s2, "cpu_temp_c", fail)
    IN  s3

\* The statements of create_schema that can be made to raise.
SchemaFailures == {"none", "create", "gpu_load_percent", "gpu_temp_c", "cpu_temp_c"}

\* The column list of the INSERT statement, line 343.
InsertColumns ==
    <<"captured_at", "cpu_percent", "ram_percent",
      "gpu_load_percent", "gpu_temp_c", "cpu_temp_c">>

\* The parameter tuple with the two temperatures in each other's place.
Parameters_TempsSwapped(args) ==
    <<args.captured_at, args.cpu_percent, args.ram_percent,
      args.gpu_load_percent, args.cpu_temp_c, args.gpu_temp_c>>

\* The parameter tuple of line 347, bound to the placeholders in order.
Parameters(args) ==
    <<args.captured_at, args.cpu_percent, args.ram_percent,
      args.gpu_load_percent, args.gpu_temp_c, args.cpu_temp_c>>

\* The row of one INSERT, lines 340-348: the id AUTOINCREMENT gives and the
\* six bound values, the i-th parameter in the i-th column of the list; a
\* column the statement does not name stays NULL.  A float is stored as
\* REAL and None as NULL, and each reads back as what it was.
NewRow(s, args) ==
    [c \in Range(s.columns) |->
        IF c = "id" THEN s.seq + Len(s.pending) + 1
        ELSE IF c \in Range(InsertColumns)
        THEN Parameters(args)[CHOOSE i \in 1..Len(InsertColumns) : InsertColumns[i] = c]
        ELSE None]

\* connection.commit(): the rows of the open transaction become durable.
commit(s) ==
    [s EXCEPT !.rows = s.rows \o s.pending,
              !.pending = <<>>,
              !.seq = s.seq + Len(s.pending)]

\* The open transaction is given up (close without commit, or process exit).
rollback(s) == [s EXCEPT !.pending = <<>>]

\* The row left in the open transaction, to be committed later.
insert_measurement_NoCommit(s, args, fail) ==
    IF fail = "execute" THEN [raised |-> TRUE, store |-> s]
    ELSE [raised |-> fail = "commit",
          store  |-> [s EXCEPT !.pending = Append(s.pending, NewRow(s, args))]]

\* Every statement committed as soon as it has run.
insert_measurement_Autocommit(s, args, fail) ==
    IF fail = "execute" THEN [raised |-> TRUE, store |-> s]
    ELSE LET inserted == commit([s EXCEPT !.pending = Append(s.pending, NewRow(s, args))])
         IN  [raised |-> fail = "commit", store |-> inserted]

\* insert_measurement, lines 331-349: [raised, store].  fail is "none",
\* "execute" (the INSERT raises) or "commit" (the commit raises).
insert_measurement(s, args, fail) ==
    IF fail = "execute" THEN [raised |-> TRUE, store |-> s]
    ELSE LET inserted == [s EXCEPT !.pending = Append(s.pending, NewRow(s, args))]
         IN  IF fail = "commit" THEN [raised |-> TRUE, store |-> inserted]
             ELSE [raised |-> FALSE, store |-> commit(inserted)]

InsertFailures == {"none", "execute", "commit"}

\* close(), lines 351-352.
close(s) == rollback(s)

(***************************************************************************)
(* PcMonitorApp (lines 493-707).                                           *)
(***************************************************************************)
ChartNames == {"cpu", "ram", "gpu_load", "gpu_temp", "cpu_temp"}

\* The five charts of lines 519-537.
NewCharts ==
    [c \in ChartNames |-> MetricChart(IF c \in {"gpu_temp", "cpu_temp"} THEN "C" ELSE "%")]

Gpu(load, temperature) == [load |-> load, temperature |-> temperature]

\* The last enumerated GPU reported in place of the first.
read_gpu_metrics_LastGpu(gpus) ==
    IF gpus.raises THEN <<None, None>>
    ELSE IF gpus.list = <<>> THEN <<None, None>>
    ELSE LET gpu == gpus.list[Len(gpus.list)]
         IN  <<FMul(gpu.load, 100), gpu.temperature>>

\* read_gpu_metrics, lines 552-561: <<load percent, temperature>>.
\* gpus = [raises, list] is what GPUtil.getGPUs() does.
read_gpu_metrics(gpus) ==
    IF gpus.raises THEN <<None, None>>
    ELSE IF gpus.list = <<>> THEN <<None, None>>
    ELSE LET gpu == gpus.list[1]
         IN  <<FMul(gpu.load, 100), gpu.temperature>>

NoSample ==
    [captured_at |-> None, cpu_percent |-> None, ram_percent |-> None,
     gpu_load_percent |-> None, gpu_temp_c |-> None, cpu_temp_c |-> None]

\* Lines 669-674: [raised, sample] for the host w at the time t (whole
\* seconds, which is what the format of line 669 keeps).
Acquisition(w, t) ==
    LET gpu == read_gpu_metrics(w.gpus)
        cpu_temp == read_cpu_temperature(w.platform)
    IN  [raised |-> cpu_temp.raised,
         sample |-> [captured_at      |-> t,
                     cpu_percent      |-> w.cpu,
                     ram_percent      |-> w.ram,
                     gpu_load_percent |-> gpu[1],
                     gpu_temp_c       |-> gpu[2],
                     cpu_temp_c       |-> cpu_temp.value]]

ChartUpdate(c, value, text) == [chart |-> c, value |-> value, text |-> text]

\* An unavailable value drawn and rendered as the number zero.
PushOf_ZeroForNone(step, s) ==
    LET Zero(v) == IF v = None THEN Float(0, 1) ELSE v
    IN  CASE step = "push_cpu" ->
                ChartUpdate("cpu", s.cpu_percent, Text("CPU: {:.1f}%", <<Fmt1(s.cpu_percent)>>))
          [] step = "push_ram" ->
                ChartUpdate("ram", s.ram_percent, Text("RAM: {:.1f}%", <<Fmt1(s.ram_percent)>>))
          [] step = "push_gpu_load" ->
                ChartUpdate("gpu_load", Zero(s.gpu_load_percent),
                            Text("GPU: {:.1f}%", <<Fmt1(Zero(s.gpu_load_percent))>>))
          [] step = "push_gpu_temp" ->
                ChartUpdate("gpu_temp", Zero(s.gpu_temp_c),
                            Text("GPU temp: {:.1f} C", <<Fmt1(Zero(s.gpu_temp_c))>>))
          [] step = "push_cpu_temp" ->
                ChartUpdate("cpu_temp", Zero(s.cpu_temp_c),
                            Text("CPU temp: {:.1f} C", <<Fmt1(Zero(s.cpu_temp_c))>>))

\* The update_value call of each push statement, lines 676-692.  The
\* format strings stand for the texts of the source.
PushOf(step, s) ==
    CASE step = "push_cpu" ->
            ChartUpdate("cpu", s.cpu_percent, Text("CPU: {:.1f}%", <<Fmt1(s.cpu_percent)>>))
      [] step = "push_ram" ->
            ChartUpdate("ram", s.ram_percent, Text("RAM: {:.1f}%", <<Fmt1(s.ram_percent)>>))
      [] step = "push_gpu_load" ->
            IF s.gpu_load_percent = None
            THEN ChartUpdate("gpu_load", Float(0, 1), Text("GPU load: N/A", None))
            ELSE ChartUpdate("gpu_load", s.gpu_load_percent,
                             Text("GPU: {:.1f}%", <<Fmt1(s.gpu_load_percent)>>))
      [] step = "push_gpu_temp" ->
            IF s.gpu_temp_c = None
            THEN ChartUpdate("gpu_temp", Float(0, 1), Text("GPU temp: N/A", None))
            ELSE ChartUpdate("gpu_temp", s.gpu_temp_c,
                             Text("GPU temp: {:.1f} C", <<Fmt1(s.gpu_temp_c)>>))
      [] step = "push_cpu_temp" ->
            IF s.cpu_temp_c = None
            THEN ChartUpdate("cpu_temp", Float(0, 1), Text("CPU temp: N/A", None))
            ELSE ChartUpdate("cpu_temp", s.cpu_temp_c,
                             Text("CPU temp: {:.1f} C", <<Fmt1(s.cpu_temp_c)>>))

\* The row written with zero in place of an unavailable value.
InsertArgs_ZeroForNone(s) ==
    LET Zero(v) == IF v = None THEN Float(0, 1) ELSE v
    IN  [captured_at      |-> s.captured_at,
         cpu_percent      |-> s.cpu_percent,
         ram_percent      |-> s.ram_percent,
         gpu_load_percent |-> Zero(s.gpu_load_percent),
         gpu_temp_c       |-> Zero(s.gpu_temp_c),
         cpu_temp_c       |-> Zero(s.cpu_temp_c)]

\* The sources read again when the row is written.
InsertArgs_Reread(s) ==
    LET again == Acquisition(host, s.captured_at).sample
    IN  [captured_at      |-> s.captured_at,
         cpu_percent      |-> again.cpu_percent,
         ram_percent      |-> again.ram_percent,
         gpu_load_percent |-> again.gpu_load_percent,
         gpu_temp_c       |-> again.gpu_temp_c,
         cpu_temp_c       |-> again.cpu_temp_c]

\* The keyword arguments of lines 694-701.
InsertArgs(s) ==
    [captured_at      |-> s.captured_at,
     cpu_percent      |-> s.cpu_percent,
     ram_percent      |-> s.ram_percent,
     gpu_load_percent |-> s.gpu_load_percent,
     gpu_temp_c       |-> s.gpu_temp_c,
     cpu_temp_c       |-> s.cpu_temp_c]

\* The store written before the charts are updated.
NextStep_InsertFirst(p) ==
    CASE p = "acquire" -> "insert"
      [] p = "insert" -> "push_cpu"
      [] p = "push_cpu" -> "push_ram"
      [] p = "push_ram" -> "push_gpu_load"
      [] p = "push_gpu_load" -> "push_gpu_temp"
      [] p = "push_gpu_temp" -> "push_cpu_temp"
      [] p = "push_cpu_temp" -> "schedule"
      [] p = "schedule" -> "mainloop"

\* The next tick scheduled as the first step after the acquisition.
NextStep_ScheduleFirst(p) ==
    CASE p = "acquire" -> "schedule"
      [] p = "schedule" -> "push_cpu"
      [] p = "push_cpu" -> "push_ram"
      [] p = "push_ram" -> "push_gpu_load"
      [] p = "push_gpu_load" -> "push_gpu_temp"
      [] p = "push_gpu_temp" -> "push_cpu_temp"
      [] p = "push_cpu_temp" -> "insert"
      [] p = "insert" -> "mainloop"

\* The next tick scheduled before the store is written.
NextStep_ScheduleBeforeInsert(p) ==
    CASE p = "acquire" -> "push_cpu"
      [] p = "push_cpu" -> "push_ram"
      [] p = "push_ram" -> "push_gpu_load"
      [] p = "push_gpu_load" -> "push_gpu_temp"
      [] p = "push_gpu_temp" -> "push_cpu_temp"
      [] p = "push_cpu_temp" -> "schedule"
      [] p = "schedule" -> "insert"
      [] p = "insert" -> "mainloop"

\* The order of the statements of update_all_metrics, lines 668-703.
NextStep(p) ==
    CASE p = "acquire" -> "push_cpu"
      [] p = "push_cpu" -> "push_ram"
      [] p = "push_ram" -> "push_gpu_load"
      [] p = "push_gpu_load" -> "push_gpu_temp"
      [] p = "push_gpu_temp" -> "push_cpu_temp"
      [] p = "push_cpu_temp" -> "insert"
      [] p = "insert" -> "schedule"
      [] p = "schedule" -> "mainloop"

\* Where an exception leaving update_all_metrics takes the program: out of
\* __init__ and the process in the first tick (line 550), and back to the
\* event loop, which reports it, in a tick run by the timer.
AfterException(t) == IF t = 1 THEN "crashed" ELSE "mainloop"

(***************************************************************************)
(* Store files found at startup: no table yet, or a table made by this or  *)
(* an earlier version, holding a few rows.                                 *)
(***************************************************************************)
OptionalLoads == {None, Float(0, 1), Float(50, 1)}

OptionalTemps == {None, Float(60, 1)}

\* The rows the given version wrote with id i.
OldRows(columns, i) ==
    { [c \in Range(columns) |->
          CASE c = "id" -> i
            [] c = "captured_at" -> i
            [] c = "cpu_percent" -> Float(10, 1)
            [] c = "ram_percent" -> Float(40, 1)
            [] c = "gpu_load_percent" -> load
            [] c = "gpu_temp_c" -> gtemp
            [] c = "cpu_temp_c" -> ctemp] :
        load \in IF "gpu_load_percent" \in Range(columns) THEN OptionalLoads ELSE {None},
        gtemp \in IF "gpu_temp_c" \in Range(columns) THEN OptionalTemps ELSE {None},
        ctemp \in IF "cpu_temp_c" \in Range(columns) THEN OptionalTemps ELSE {None} }

RECURSIVE OldRowLists(_, _)
OldRowLists(columns, n) ==
    IF n = 0 THEN {<<>>}
    ELSE {Append(l, r) : l \in {x \in OldRowLists(columns, n - 1) : Len(x) = n - 1},
                         r \in OldRows(columns, n)}
            \cup OldRowLists(columns, n - 1)

StoreOf(columns, rows) ==
    [exists |-> TRUE, columns |-> columns, rows |-> rows, pending |-> <<>>, seq |-> Len(rows)]

StoreFiles ==
    {NoTable}
        \cup {StoreOf(cols, rows) :
                 cols \in {OldestColumns}, rows \in OldRowLists(OldestColumns, MaxOldRows)}
        \cup {StoreOf(cols, rows) :
                 cols \in {EarlierColumns}, rows \in OldRowLists(EarlierColumns, MaxOldRows)}
        \cup {StoreOf(cols, rows) :
                 cols \in {CurrentColumns}, rows \in OldRowLists(CurrentColumns, MaxOldRows)}
        \cup {StoreOf(cols, rows) :
                 cols \in {WithoutGpuTempColumns},
                 rows \in OldRowLists(WithoutGpuTempColumns, MaxOldRows)}
        \cup {StoreOf(cols, rows) :
                 cols \in {WithoutTempColumns},
                 rows \in OldRowLists(WithoutTempColumns, MaxOldRows)}

(***************************************************************************)
(* Platforms: what the three temperature methods find.                     *)
(* platform = [psutil, tool, sysfs].                                       *)
(***************************************************************************)
\* Pieces of `sensors` output.
Fragments ==
    { <<"+", "5", "5", ".", "0", "deg", "C">>,
      <<"2", "0", "0", ".", "0", "deg", "C">>,
      <<"-", "2", "0", ".", "0", "deg", "C">>,
      <<"1", "5", "0", " ", "C">>,
      <<"-", "2", "1", "deg", "C">>,
      <<"1", "5", "0", ".", "5", "C">>,
      <<"4", "5", "deg">>,
      <<"7", "0", "deg", "F">>,
      <<"x", ":", " ">>,
      <<"3", ".", "\n">> }

RECURSIVE Texts(_)
Texts(n) ==
    IF n = 0 THEN {<<>>}
    ELSE Texts(n - 1) \cup {t \o f : t \in Texts(n - 1), f \in Fragments}

ToolRan(returncode, stdout) ==
    [kind |-> "ran", returncode |-> returncode, stdout |-> stdout]

ToolFailed(kind) == [kind |-> kind, returncode |-> 0, stdout |-> <<>>]

\* Every outcome of running the tool.
Tools ==
    {ToolFailed(k) : k \in {"not_found", "timeout", "os_error"}}
        \cup {ToolRan(0, t) : t \in Texts(MaxFragments)}
        \cup {ToolRan(1, t) : t \in Texts(1)}

\* A few outcomes of running the tool, for the fallback chain.
FewTools ==
    {ToolFailed(k) : k \in {"not_found", "timeout", "os_error"}}
        \cup {ToolRan(0, <<>>),
              ToolRan(1, <<"+", "5", "5", ".", "0", "deg", "C">>),
              ToolRan(0, <<"2", "0", "0", ".", "0", "deg", "C">>),
              ToolRan(0, <<"+", "5", "5", ".", "0", "deg", "C">>)}

TempNumber(raw) == [kind |-> "number", raw |-> raw]

TempFailed(kind) == [kind |-> kind, raw |-> 0]

TypeText(text) == [kind |-> "text", text |-> text]

TypeFailed(kind) == [kind |-> kind, text |-> <<>>]

X86PkgTemp == TypeText(<<"x", "8", "6", "_", "p", "k", "g", "_", "t", "e", "m", "p", "\n">>)

ZoneTypes ==
    { X86PkgTemp,
      TypeText(<<"C", "P", "U", "-", "t", "h", "e", "r", "m", "a", "l", "\n">>),
      TypeText(<<"P", "a", "c", "k", "a", "g", "e", " ", "i", "d", " ", "0", "\n">>),
      TypeText(<<"a", "c", "p", "i", "t", "z", "\n">>),
      TypeText(<<"i", "w", "l", "w", "i", "f", "i", "_", "1", "\n">>),
      TypeText(<<"\n">>),
      TypeFailed("missing"),
      TypeFailed("unreadable") }

RawTemps == {45000, 45, 1000, 1001, 500, 151, 150, 150000, 150001, 2000000, 0, -20, -21, -5000}

Entry(name, temp, type) == [name |-> name, temp |-> temp, type |-> type]

\* The kinds of directory entry: every raw value under a CPU label, every
\* label with one reading, every failure of the temp file, and an entry
\* that is no thermal zone.
Entries ==
    {Entry("thermal_zone0", TempNumber(r), X86PkgTemp) : r \in RawTemps}
        \cup {Entry("thermal_zone1", TempNumber(60000), ty) : ty \in ZoneTypes}
        \cup {Entry("thermal_zone2", TempFailed(k), X86PkgTemp) :
                 k \in {"missing", "unreadable", "garbage"}}
        \cup {Entry("cooling_device0", TempNumber(30000), X86PkgTemp)}

RECURSIVE EntryLists(_)
EntryLists(n) ==
    IF n = 0 THEN {<<>>}
    ELSE EntryLists(n - 1) \cup {Append(l, e) : l \in EntryLists(n - 1), e \in Entries}

Sysfs(isdir, listable, entries) ==
    [isdir |-> isdir, listable |-> listable, entries |-> entries]

NoSysfs == Sysfs(FALSE, FALSE, <<>>)

SysfsTrees ==
    {NoSysfs, Sysfs(TRUE, FALSE, <<>>)}
        \cup {Sysfs(TRUE, TRUE, l) : l \in EntryLists(MaxZones)}

FewSysfs ==
    { NoSysfs,
      Sysfs(TRUE, FALSE, <<>>),
      Sysfs(TRUE, TRUE, <<Entry("thermal_zone0", TempNumber(45000), X86PkgTemp)>>),
      Sysfs(TRUE, TRUE, <<Entry("thermal_zone0", TempNumber(45000), TypeText(<<"a", "c", "p", "i", "t", "z", "\n">>))>>) }

Psutil(raises, groups) == [raises |-> raises, groups |-> groups]

NoPsutil == Psutil(TRUE, <<>>)

PsutilOutcomes ==
    { NoPsutil,
      Psutil(FALSE, <<>>),
      Psutil(FALSE, << <<None>> >>),
      Psutil(FALSE, << <<Float(40, 1)>>, <<None, Float(61, 1)>> >>),
      Psutil(FALSE, << <<Float(200, 1)>> >>),
      Psutil(FALSE, << <<Float(0, 1)>> >>) }

Platform(psutil, tool, sysfs) == [psutil |-> psutil, tool |-> tool, sysfs |-> sysfs]

\* The platforms of SpecTemp: every tool output, every thermal-zone tree,
\* and every combination of a few outcomes of the three methods.
Platforms ==
    {Platform(NoPsutil, t, NoSysfs) : t \in Tools}
        \cup {Platform(NoPsutil, ToolFailed("not_found"), z) : z \in SysfsTrees}
        \cup {Platform(ps, t, z) : ps \in PsutilOutcomes, t \in FewTools, z \in FewSysfs}

(***************************************************************************)
(* The host in one tick: world = [cpu, ram, gpus, platform].               *)
(***************************************************************************)
Gpus(raises, list) == [raises |-> raises, list |-> list]

World(cpu, ram, gpus, p) == [cpu |-> cpu, ram |-> ram, gpus |-> gpus, platform |-> p]

NoWorld == World(None, None, Gpus(TRUE, <<>>), Platform(NoPsutil, ToolFailed("not_found"), NoSysfs))

OneGpu == Gpus(FALSE, <<Gpu(Float(1, 2), Float(60, 1))>>)

GpuOutcomes ==
    { Gpus(TRUE, <<>>),
      Gpus(FALSE, <<>>),
      Gpus(FALSE, <<Gpu(Float(0, 1), None)>>),
      Gpus(FALSE, <<Gpu(Float(1, 4), Float(0, 1))>>),
      Gpus(FALSE, <<Gpu(Float(1, 2), Float(60, 1)), Gpu(Float(9, 10), Float(80, 1))>>) }

SensorsGive45 == Platform(Psutil(FALSE, << <<Float(45, 1)>> >>), ToolFailed("not_found"), NoSysfs)

AcpitzZone ==
    Entry("thermal_zone0", TempNumber(45000), TypeText(<<"a", "c", "p", "i", "t", "z", "\n">>))

TickPlatforms ==
    { Platform(NoPsutil, ToolFailed("not_found"), NoSysfs),
      Platform(Psutil(FALSE, << <<None>> >>),
               ToolRan(0, <<"2", "0", "0", ".", "0", "deg", "C">>),
               Sysfs(TRUE, TRUE, <<AcpitzZone>>)),
      Platform(Psutil(FALSE, << <<Float(0, 1)>> >>), ToolFailed("not_found"), NoSysfs),
      Platform(Psutil(FALSE, <<>>),
               ToolRan(0, <<"+", "5", "5", ".", "0", "deg", "C">>), NoSysfs),
      Platform(NoPsutil, ToolFailed("timeout"),
               Sysfs(TRUE, TRUE, <<Entry("thermal_zone0", TempNumber(45000), X86PkgTemp)>>)),
      Platform(NoPsutil, ToolFailed("os_error"), NoSysfs),
      Platform(Psutil(FALSE, <<>>), ToolRan(1, <<>>), Sysfs(TRUE, FALSE, <<>>)) }

Worlds ==
    {World(Float(0, 1), Float(40, 1), g, SensorsGive45) : g \in GpuOutcomes}
        \cup {World(Float(50, 1), Float(40, 1), OneGpu, p) : p \in TickPlatforms}
        \cup {World(Float(50, 1), Float(40, 1), Gpus(TRUE, <<>>), p) :
                 p \in {q \in TickPlatforms : read_cpu_temperature(q).raised}}

\* The samples given to insert_measurement in SpecStore, taken at time t:
\* each optional value absent or present, zero among the present.
Samples(t) ==
    { [captured_at      |-> t,
       cpu_percent      |-> Float(25, 2),
       ram_percent      |-> Float(40, 1),
       gpu_load_percent |-> load,
       gpu_temp_c       |-> gtemp,
       cpu_temp_c       |-> ctemp] :
        load \in OptionalLoads, gtemp \in OptionalTemps, ctemp \in {None, Float(91, 2)} }

\* The store files of SpecStore, as create_schema leaves them.
OpenedStores ==
    {create_schema(f, "none").store :
        f \in {NoTable} \cup {StoreOf(EarlierColumns, rows) :
                                  rows \in OldRowLists(EarlierColumns, 1)}}

\* What the host may have become while a tick is run.
LaterWorlds == {World(Float(0, 1), Float(40, 1), Gpus(TRUE, <<>>), SensorsGive45)}

\* The store files of Spec.
AppStoreFiles ==
    {NoTable}
        \cup {StoreOf(EarlierColumns, rows) :
                 rows \in {l \in OldRowLists(EarlierColumns, 1) :
                              \A i \in 1..Len(l) : l[i]["gpu_load_percent"] = Float(50, 1)
                                                     /\ l[i]["gpu_temp_c"] = Float(60, 1)}}
        \cup {StoreOf(WithoutTempColumns, rows) :
                 rows \in {l \in OldRowLists(WithoutTempColumns, 1) :
                              Len(l) = 1 /\ l[1]["gpu_load_percent"] = Float(50, 1)}}

(***************************************************************************)
(* The values of the variables a specification does not use.               *)
(***************************************************************************)
ChartIdle ==
    /\ chart = MetricChart("%")
    /\ pushed = <<>>

NotCalled == [fn |-> "not_called", result |-> None]

TempIdle ==
    /\ platform = Platform(NoPsutil, ToolFailed("not_found"), NoSysfs)
    /\ ret = NotCalled

SchemaIdle ==
    /\ store = NoTable
    /\ opened = NoTable
    /\ runs = 0
    /\ settled = <<>>

AppIdle ==
    /\ pc = "start"
    /\ tick = 0
    /\ now = 0
    /\ timer = 0
    /\ conn = "none"
    /\ closes = 0
    /\ charts = NewCharts
    /\ host = NoWorld
    /\ world = NoWorld
    /\ sample = NoSample
    /\ pushes = [c \in ChartNames |-> 0]
    /\ ins = "none"

(***************************************************************************)
(* SpecChart: one MetricChart fed by update_value alone.  pushed is the    *)
(* log of every value pushed so far.                                       *)
(***************************************************************************)
PushValues == {Float(0, 1), Float(25, 1), Float(101, 2)}

PushTexts == {None, Text("load: {:.1f}%", <<0>>)}

MaxPushes == max_points + ExtraPushes

ChartInit ==
    /\ ChartIdle
    /\ TempIdle
    /\ SchemaIdle
    /\ AppIdle

UpdateValue ==
    /\ Len(pushed) < MaxPushes
    /\ \E value \in PushValues, display_text \in PushTexts :
          /\ chart' = update_value(chart, value, display_text)
          /\ pushed' = Append(pushed, value)
    /\ UNCHANGED <<tempVars, schemaVars, appVars>>

ChartNext == UpdateValue

SpecChart == ChartInit /\ [][ChartNext]_vars

(***************************************************************************)
(* SpecTemp: the temperature functions applied to a platform drawn from    *)
(* bounded sets.  ret is NotCalled or [fn, result] after one call.          *)
(***************************************************************************)
TempInit ==
    /\ platform \in Platforms
    /\ ret = NotCalled
    /\ ChartIdle
    /\ SchemaIdle
    /\ AppIdle

CallExtract ==
    /\ ret = NotCalled
    /\ platform.tool.kind = "ran"
    /\ ret' = [fn |-> "_extract_temp_values_from_text",
               result |-> _extract_temp_values_from_text(platform.tool.stdout)]
    /\ UNCHANGED <<platform, chartVars, schemaVars, appVars>>

CallLmSensors ==
    /\ ret = NotCalled
    /\ ret' = [fn |-> "_read_cpu_temp_from_lm_sensors",
               result |-> _read_cpu_temp_from_lm_sensors(platform.tool)]
    /\ UNCHANGED <<platform, chartVars, schemaVars, appVars>>

CallSysfs ==
    /\ ret = NotCalled
    /\ ret' = [fn |-> "_read_cpu_temp_from_sysfs",
               result |-> _read_cpu_temp_from_sysfs(platform.sysfs)]
    /\ UNCHANGED <<platform, chartVars, schemaVars, appVars>>

CallReadCpuTemperature ==
    /\ ret = NotCalled
    /\ ret' = [fn |-> "read_cpu_temperature", result |-> read_cpu_temperature(platform)]
    /\ UNCHANGED <<platform, chartVars, schemaVars, appVars>>

TempNext == CallExtract \/ CallLmSensors \/ CallSysfs \/ CallReadCpuTemperature

SpecTemp == TempInit /\ [][TempNext]_vars

(***************************************************************************)
(* SpecSchema: create_schema run again and again on one store file.  runs  *)
(* counts the runs; settled is <<store>> as the first run that returned    *)
(* left it (<<>> before); opened is the store file as it was found.        *)
(***************************************************************************)
SchemaInit ==
    /\ store \in StoreFiles
    /\ opened = store
    /\ runs = 0
    /\ settled = <<>>
    /\ ChartIdle
    /\ TempIdle
    /\ AppIdle

CreateSchema ==
    /\ runs < MaxRuns
    /\ \E fail \in SchemaFailures :
          LET r == create_schema(store, fail)
          IN  /\ store' = r.store
              /\ settled' = IF settled = <<>> /\ ~r.raised THEN <<r.store>> ELSE settled
    /\ runs' = runs + 1
    /\ UNCHANGED <<opened, chartVars, tempVars, appVars>>

SchemaNext == CreateSchema

SpecSchema == SchemaInit /\ [][SchemaNext]_vars

(***************************************************************************)
(* SpecStore: insert_measurement called again and again on an open store.  *)
(* sample is the sample of the last call, ins its outcome, runs the number *)
(* of calls.                                                               *)
(***************************************************************************)
StoreInit ==
    /\ store \in OpenedStores
    /\ opened = store
    /\ runs = 0
    /\ settled = <<>>
    /\ ChartIdle
    /\ TempIdle
    /\ AppIdle

InsertMeasurement ==
    /\ runs < MaxInserts
    /\ \E args \in Samples(runs), fail \in InsertFailures :
          LET r == insert_measurement(store, args, fail)
          IN  /\ store' = r.store
              /\ sample' = args
              /\ ins' = IF r.raised THEN "failed" ELSE "ok"
    /\ runs' = runs + 1
    /\ UNCHANGED <<opened, settled, chartVars, tempVars>>
    /\ UNCHANGED <<pc, tick, now, timer, conn, closes, charts, host, world, pushes>>

StoreNext == InsertMeasurement

SpecStore == StoreInit /\ [][StoreNext]_vars

(***************************************************************************)
(* Spec: the application.  pc is the statement the program is at: "start"  *)
(* before PcMonitorApp is constructed, the steps of update_all_metrics,    *)
(* "mainloop" while the event loop waits, "exited" after on_close and      *)
(* "crashed" after an exception left __init__.  tick counts the ticks      *)
(* begun, timer the pending after-callbacks, closes the calls of close().  *)
(* host is the machine as it is now (NoWorld before the program looks at   *)
(* it); world (the host as the acquisition found it), pushes (pushes per   *)
(* chart) and ins (the outcome of the append) describe the current tick.   *)
(***************************************************************************)
notOfApp == <<chartVars, tempVars, opened, runs, settled>>

othersOfApp == <<notOfApp, host>>

Init ==
    /\ store \in AppStoreFiles
    /\ opened = store
    /\ runs = 0
    /\ settled = <<>>
    /\ AppIdle
    /\ ChartIdle
    /\ TempIdle

\* PcMonitorApp.__init__, lines 496-550, up to the call of the first tick.
Construct ==
    /\ pc = "start"
    /\ \E fail \in SchemaFailures :
          LET r == create_schema(store, fail)
          IN  /\ store' = r.store
              /\ pc' = IF r.raised THEN "crashed" ELSE "acquire"
              /\ tick' = IF r.raised THEN tick ELSE tick + 1
    /\ conn' = "open"
    /\ charts' = NewCharts
    /\ UNCHANGED <<now, timer, closes, world, sample, pushes, ins, othersOfApp>>

\* The readings of the machine change as time passes: to anything before
\* a tick reads them, and once more while the tick is run.
HostChanges ==
    /\ \/ /\ pc = "acquire"
          /\ \E w \in Worlds \ {host} : host' = w
       \/ /\ pc \in {"push_cpu", "push_ram", "push_gpu_load", "push_gpu_temp",
                      "push_cpu_temp", "insert", "schedule"}
          /\ host = world
          /\ \E w \in LaterWorlds \ {host} : host' = w
    /\ UNCHANGED <<store, pc, tick, now, timer, conn, closes, charts,
                   world, sample, pushes, ins, notOfApp>>

\* Lines 669-674: every source is read once, as the host is now.
Acquire ==
    /\ pc = "acquire"
    /\ host # NoWorld
    /\ LET a == Acquisition(host, now)
       IN  /\ world' = host
           /\ sample' = IF a.raised THEN sample ELSE a.sample
           /\ pc' = IF a.raised THEN AfterException(tick) ELSE NextStep(pc)
    /\ UNCHANGED <<store, tick, now, timer, conn, closes, charts, pushes, ins, othersOfApp>>

\* One update_value call of lines 676-692.
Push(step) ==
    /\ pc = step
    /\ LET u == PushOf(step, sample)
       IN  /\ charts' = [charts EXCEPT ![u.chart] = update_value(@, u.value, u.text)]
           /\ pushes' = [pushes EXCEPT ![u.chart] = @ + 1]
    /\ pc' = NextStep(pc)
    /\ UNCHANGED <<store, tick, now, timer, conn, closes, world, sample, ins, othersOfApp>>

PushCpu == Push("push_cpu")

PushRam == Push("push_ram")

PushGpuLoad == Push("push_gpu_load")

PushGpuTemp == Push("push_gpu_temp")

PushCpuTemp == Push("push_cpu_temp")

\* Lines 694-701.  An exception that ends the process gives up the open
\* transaction.
Insert ==
    /\ pc = "insert"
    /\ \E fail \in InsertFailures :
          LET r == insert_measurement(store, InsertArgs(sample), fail)
          IN  /\ ins' = IF r.raised THEN "failed" ELSE "ok"
              /\ pc' = IF r.raised THEN AfterException(tick) ELSE NextStep(pc)
              /\ store' = IF r.raised /\ AfterException(tick) = "crashed"
                          THEN rollback(r.store) ELSE r.store
    /\ UNCHANGED <<tick, now, timer, conn, closes, charts, world, sample, pushes, othersOfApp>>

\* Line 703: root.after(1000, self.update_all_metrics).
Schedule ==
    /\ pc = "schedule"
    /\ timer' = timer + 1
    /\ pc' = NextStep(pc)
    /\ UNCHANGED <<store, tick, now, conn, closes, charts, world, sample, pushes, ins, othersOfApp>>

\* The event loop runs the pending callback, a second or more later.
TimerFires ==
    /\ pc = "mainloop"
    /\ timer > 0
    /\ tick < MaxTicks
    /\ timer' = timer - 1
    /\ tick' = tick + 1
    /\ now' = now + 1
    /\ pc' = "acquire"
    /\ world' = NoWorld
    /\ sample' = NoSample
    /\ pushes' = [c \in ChartNames |-> 0]
    /\ ins' = "none"
    /\ UNCHANGED <<store, conn, closes, charts, othersOfApp>>

\* The store closed and the window left in place.
OnClose_NoDestroy ==
    /\ pc = "mainloop"
    /\ closes < 2
    /\ store' = close(store)
    /\ conn' = "closed"
    /\ closes' = closes + 1
    /\ UNCHANGED <<pc, timer, tick, now, charts, world, sample, pushes, ins, othersOfApp>>

\* on_close, lines 705-707: close the store, destroy the window (and with
\* it the pending callbacks); the event loop returns.
OnClose ==
    /\ pc = "mainloop"
    /\ store' = close(store)
    /\ conn' = "closed"
    /\ closes' = closes + 1
    /\ timer' = 0
    /\ pc' = "exited"
    /\ UNCHANGED <<tick, now, charts, world, sample, pushes, ins, othersOfApp>>

Next ==
    \/ Construct
    \/ Acquire
    \/ PushCpu
    \/ PushRam
    \/ PushGpuLoad
    \/ PushGpuTemp
    \/ PushCpuTemp
    \/ Insert
    \/ Schedule
    \/ TimerFires
    \/ OnClose
    \/ HostChanges

Spec == Init /\ [][Next]_vars

(***************************************************************************)
(* Claims about MetricChart (SpecChart).                                   *)
(***************************************************************************)
\* The last n elements of a sequence.
LastN(s, n) == SubSeq(s, Len(s) - n + 1, Len(s))

Zeros(n) == [i \in 1..n |-> Float(0, 1)]

\* C1: after k >= N pushes the history has length exactly N and equals the
\* last N pushed values in push order (oldest first, newest last).
C1_HistoryIsLastN ==
    Len(pushed) >= max_points =>
        /\ Len(chart.history) = max_points
        /\ chart.history = LastN(pushed, max_points)
        /\ chart.history[max_points] = pushed[Len(pushed)]

C1_Witness ==
    /\ Len(pushed) > max_points
    /\ pushed[1] # pushed[Len(pushed)]
    /\ chart.history[1] # chart.history[max_points]

\* C2: in every reachable state the history holds exactly N elements; it
\* starts as N zeros and after k < N pushes it is N-k zeros followed by the
\* k pushed values in push order.
C2_AlwaysNElements ==
    /\ Len(chart.history) = max_points
    /\ Len(pushed) < max_points =>
          chart.history = Zeros(max_points - Len(pushed)) \o pushed

C2_Witness ==
    /\ Len(pushed) > 0
    /\ Len(pushed) < max_points
    /\ pushed[1] # Float(0, 1)
    /\ Len(chart.history) = max_points

(***************************************************************************)
(* Claims about the temperature functions (SpecTemp).                      *)
(***************************************************************************)
IsPrefix(s, t) == Len(s) <= Len(t) /\ SubSeq(t, 1, Len(s)) = s

\* The sensor API gave at least one reading.
SensorApiYields(psutil) ==
    /\ ~psutil.raises
    /\ \E g \in 1..Len(psutil.groups) :
          \E i \in 1..Len(psutil.groups[g]) : psutil.groups[g][i] # None

\* The external tool gave a value.
ToolYields(tool) ==
    LET r == _read_cpu_temp_from_lm_sensors(tool) IN ~r.raised /\ r.value # None

Invoked(method) == \E i \in 1..Len(ret.result.calls) : ret.result.calls[i] = method

\* C5: within one call of read_cpu_temperature the methods are tried in the
\* order sensor API, external tool, thermal-zone filesystem, and a method is
\* invoked only if every earlier method produced no data.
C5_StrictPriorityOrder ==
    ret.fn = "read_cpu_temperature" =>
        /\ IsPrefix(ret.result.calls, <<"psutil", "lm_sensors", "sysfs">>)
        /\ Len(ret.result.calls) >= 1
        /\ Invoked("lm_sensors") => ~SensorApiYields(platform.psutil)
        /\ Invoked("sysfs") =>
              ~SensorApiYields(platform.psutil) /\ ~ToolYields(platform.tool)
        /\ SensorApiYields(platform.psutil) => ret.result.calls = <<"psutil">>
        /\ ToolYields(platform.tool) => ~Invoked("sysfs")

C5_Witness ==
    /\ ret.fn = "read_cpu_temperature"
    /\ ret.result.calls = <<"psutil", "lm_sensors">>
    /\ ret.result.value = Float(55, 1)
    /\ _read_cpu_temp_from_sysfs(platform.sysfs).value = Float(45, 1)

\* Every parsed candidate of a text, before the range check.
Candidates(raw_text) ==
    LET matches == findall(raw_text, 1)
    IN  [i \in 1..Len(matches) |-> float_of_match(matches[i])]

Between(v, lo, hi) == lo * v[2] <= v[1] /\ v[1] <= hi * v[2]

\* C8: in the external-tool path the result is the mean of exactly the
\* candidates v with -20 <= v <= 150 (bounds included), and no data when no
\* candidate remains.
C8_MeanOfPlausibleCandidates ==
    (/\ ret.fn = "_read_cpu_temp_from_lm_sensors"
     /\ platform.tool.kind = "ran"
     /\ platform.tool.returncode = 0
     /\ platform.tool.stdout # <<>>) =>
        LET kept == SelectSeq(Candidates(platform.tool.stdout),
                              LAMBDA v : Between(v, -20, 150))
        IN  /\ ~ret.result.raised
            /\ ret.result.value = IF kept = <<>> THEN None ELSE Mean(kept)

C8_Witness ==
    /\ ret.fn = "_read_cpu_temp_from_lm_sensors"
    /\ Candidates(platform.tool.stdout) = <<Float(55, 1), Float(200, 1)>>
    /\ ret.result.value = Float(55, 1)

\* A thermal-zone entry with a CPU label and a numeric temp file.
IsCpuNumberZone(entry) ==
    /\ startswith_thermal_zone(entry.name)
    /\ entry.temp.kind = "number"
    /\ entry.type = X86PkgTemp

\* A raw value scaled at most once.
ScaledOnce(raw) == IF raw > 1000 THEN Float(raw, 1000) ELSE Float(raw, 1)

\* C9: in the thermal-zone path a raw value above 1000 is divided by 1000
\* exactly once, a raw value of at most 1000 is used unchanged, and a raw
\* value between 151 and 1000 is discarded by the range check.
C9_ScaledAtMostOnce ==
    (/\ ret.fn = "_read_cpu_temp_from_sysfs"
     /\ platform.sysfs.isdir
     /\ platform.sysfs.listable
     /\ \A i \in 1..Len(platform.sysfs.entries) :
           IsCpuNumberZone(platform.sysfs.entries[i])) =>
        LET raws == [i \in 1..Len(platform.sysfs.entries) |->
                        platform.sysfs.entries[i].temp.raw]
            kept == SelectSeq([i \in 1..Len(raws) |-> ScaledOnce(raws[i])],
                              LAMBDA v : Between(v, -20, 150))
        IN  /\ ret.result.value = IF kept = <<>> THEN None ELSE Mean(kept)
            /\ (\A i \in 1..Len(raws) : raws[i] >= 151 /\ raws[i] <= 1000) =>
                  ret.result.value = None

C9_Witness ==
    /\ ret.fn = "_read_cpu_temp_from_sysfs"
    /\ Len(platform.sysfs.entries) = 2
    /\ IsCpuNumberZone(platform.sysfs.entries[1])
    /\ IsCpuNumberZone(platform.sysfs.entries[2])
    /\ platform.sysfs.entries[1].temp.raw = 45000
    /\ platform.sysfs.entries[2].temp.raw = 45
    /\ ret.result.value = Float(45, 1)

(***************************************************************************)
(* Claims about the sampling loop (Spec).                                  *)
(***************************************************************************)
Last(seq) == seq[Len(seq)]

\* The row the current tick appended.
TickRow == Last(store.rows)

\* C3: if the store append of a tick fails the sampling loop does not stop:
\* once update_all_metrics has ended, the next tick is scheduled.
C3_FailedAppendKeepsLoopRunning ==
    (ins = "failed" /\ pc \in {"mainloop", "crashed"}) =>
        (pc = "mainloop" /\ timer >= 1)

\* The value each chart is given for a sample.
Charted(s) ==
    [c \in ChartNames |->
        LET v == CASE c = "cpu" -> s.cpu_percent
                   [] c = "ram" -> s.ram_percent
                   [] c = "gpu_load" -> s.gpu_load_percent
                   [] c = "gpu_temp" -> s.gpu_temp_c
                   [] c = "cpu_temp" -> s.cpu_temp_c
        IN  IF v = None THEN Float(0, 1) ELSE v]

\* C4: in a tick whose store append fails, every history has received
\* exactly one push for that tick, the value of that tick.
C4_FailedAppendAfterAllPushes ==
    ins = "failed" =>
        \A c \in ChartNames :
            /\ pushes[c] = 1
            /\ Last(charts[c].history) = Charted(sample)[c]

C4_Witness ==
    /\ ins = "failed"
    /\ tick = 2
    /\ sample.cpu_temp_c = Float(55, 1)
    /\ Last(charts["cpu_temp"].history) = Float(55, 1)

\* No method of the platform gives a temperature, and none raises.
AllMethodsFail(p) ==
    /\ ~SensorApiYields(p.psutil)
    /\ _read_cpu_temp_from_lm_sensors(p.tool) = Return(None)
    /\ _read_cpu_temp_from_sysfs(p.sysfs) = Return(None)

\* C6: when all three temperature methods yield no data in a tick,
\* read_cpu_temperature returns None, the row appended has cpu_temp_c null
\* and the text set for the CPU temperature is the unavailable text, which
\* renders no number.
C6_AllMethodsFailIsUnavailable ==
    (world # NoWorld /\ AllMethodsFail(world.platform)) =>
        /\ read_cpu_temperature(world.platform).value = None
        /\ sample.cpu_temp_c = None
        /\ pushes["cpu_temp"] = 1 =>
              /\ charts["cpu_temp"].value_var.fmt = "CPU temp: N/A"
              /\ charts["cpu_temp"].value_var.arg = None
        /\ ins = "ok" => TickRow["cpu_temp_c"] = None

C6_Witness ==
    /\ world # NoWorld
    /\ AllMethodsFail(world.platform)
    /\ world.platform.tool.kind = "ran"
    /\ ins = "ok"
    /\ tick = 2
    /\ TickRow["cpu_temp_c"] = None
    /\ charts["cpu_temp"].value_var.fmt = "CPU temp: N/A"

NoGpu(w) == w.gpus.raises \/ w.gpus.list = <<>>

\* The sources of the optional columns that had no data in the tick.
Unavailable(w, column) ==
    CASE column = "gpu_load_percent" -> NoGpu(w)
      [] column = "gpu_temp_c" -> NoGpu(w) \/ w.gpus.list[1].temperature = None
      [] column = "cpu_temp_c" -> AllMethodsFail(w.platform)

ChartOf(column) ==
    CASE column = "gpu_load_percent" -> "gpu_load"
      [] column = "gpu_temp_c" -> "gpu_temp"
      [] column = "cpu_temp_c" -> "cpu_temp"

\* What the source of an optional column measured, when it had data.
Measured(w, column) ==
    CASE column = "gpu_load_percent" -> FMul(w.gpus.list[1].load, 100)
      [] column = "gpu_temp_c" -> w.gpus.list[1].temperature
      [] column = "cpu_temp_c" -> read_cpu_temperature(w.platform).value

\* C7: for each optional metric the persisted row holds null exactly when
\* the source was unavailable in the tick, and otherwise the measured value
\* (zero only when zero was measured), while the chart is given 0.0 for an
\* unavailable value.
C7_NullIffUnavailable ==
    ins = "ok" =>
        \A column \in {"gpu_load_percent", "gpu_temp_c", "cpu_temp_c"} :
            /\ TickRow[column] = None <=> Unavailable(world, column)
            /\ Unavailable(world, column) =>
                  Last(charts[ChartOf(column)].history) = Float(0, 1)
            /\ ~Unavailable(world, column) =>
                  /\ TickRow[column] = Measured(world, column)
                  /\ Last(charts[ChartOf(column)].history) = Measured(world, column)

C7_Witness ==
    /\ ins = "ok"
    /\ tick = 2
    /\ TickRow["gpu_load_percent"] = Float(0, 1)
    /\ TickRow["gpu_temp_c"] = None
    /\ Last(charts["gpu_temp"].history) = Float(0, 1)
    /\ Last(charts["gpu_load"].history) = Float(0, 1)

(***************************************************************************)
(* Claims about the schema (SpecSchema).                                   *)
(***************************************************************************)
NoDuplicates(seq) == \A i, j \in 1..Len(seq) : seq[i] = seq[j] => i = j

\* C10: create_schema is idempotent: after the first run that returned,
\* every further run leaves the columns (each name exactly once) and the
\* rows with all their values unchanged.
C10_CreateSchemaIdempotent ==
    settled # <<>> =>
        /\ store.columns = settled[1].columns
        /\ store.rows = settled[1].rows
        /\ NoDuplicates(store.columns)
        /\ Range(store.columns) = Range(CurrentColumns)

C10_Witness ==
    /\ runs >= 2
    /\ settled # <<>>
    /\ Len(store.rows) = 2
    /\ store.rows[1]["gpu_load_percent"] = Float(50, 1)
    /\ store.rows[1]["cpu_temp_c"] = None

\* The store file was made by an earlier schema version: the table is
\* there and lacks gpu_temp_c, cpu_temp_c or both.
MadeByEarlierVersion(s) ==
    /\ s.exists
    /\ {"gpu_temp_c", "cpu_temp_c"} \ Range(s.columns) # {}

\* Every row of before is a row of after, with its id and its values, and
\* shows NULL in every column added since.
RowsKept(before, after) ==
    /\ Len(after.rows) = Len(before.rows)
    /\ \A i \in 1..Len(before.rows) :
          /\ DOMAIN after.rows[i] = Range(after.columns)
          /\ \A c \in Range(before.columns) : after.rows[i][c] = before.rows[i][c]
          /\ \A c \in Range(after.columns) \ Range(before.columns) :
                after.rows[i][c] = None

\* The table of after is the table of before, grown at the end: it still
\* exists, its old columns keep their places and its id sequence goes on.
SameTable(before, after) ==
    /\ after.exists
    /\ IsPrefix(before.columns, after.columns)
    /\ after.seq = before.seq

\* C11: a store made by an earlier schema version (lacking gpu_temp_c,
\* cpu_temp_c or both) is upgraded in place: once create_schema has
\* returned all seven columns exist, the table was not dropped or made
\* anew, every row of before is present with its id and values unchanged,
\* and each added column is null in every such row.
C11_UpgradedInPlace ==
    MadeByEarlierVersion(opened) =>
        /\ SameTable(opened, store)
        /\ RowsKept(opened, store)
        /\ settled # <<>> =>
              /\ Range(store.columns) = Range(CurrentColumns)
              /\ Len(store.columns) = 7

C11_Witness ==
    /\ opened.columns = WithoutTempColumns
    /\ Len(opened.rows) = 2
    /\ settled # <<>>
    /\ Len(store.columns) = 7
    /\ store.rows[2]["id"] = 2
    /\ store.rows[2]["gpu_load_percent"] = Float(50, 1)
    /\ store.rows[2]["gpu_temp_c"] = None
    /\ store.rows[2]["cpu_temp_c"] = None

(***************************************************************************)
(* Claims about the store (SpecStore).                                     *)
(***************************************************************************)
\* A fresh read of the store: the committed rows, oldest first.
FreshRead(s) == s.rows

\* The row shows the values of the sample, NULL where a value is absent.
RowMatches(row, s) ==
    /\ row["captured_at"] = s.captured_at
    /\ \A c \in {"cpu_percent", "ram_percent",
                  "gpu_load_percent", "gpu_temp_c", "cpu_temp_c"} : row[c] = s[c]

\* C12: insert_measurement followed by a fresh read of the store returns
\* a newest row whose captured_at, cpu_percent, ram_percent,
\* gpu_load_percent, gpu_temp_c and cpu_temp_c equal the inserted values,
\* null for every optional value that was absent, and every row stored
\* before is unchanged.
C12_InsertThenReadRoundTrip ==
    [][(runs' = runs + 1 /\ ins' = "ok") =>
          /\ Len(FreshRead(store')) > Len(FreshRead(store))
          /\ IsPrefix(FreshRead(store), FreshRead(store'))
          /\ RowMatches(Last(FreshRead(store')), sample')
          /\ Last(FreshRead(store'))["id"] = store'.seq
          /\ store'.pending = <<>>]_vars

C12_Witness ==
    /\ runs = 2
    /\ ins = "ok"
    /\ Len(opened.rows) = 1
    /\ Len(FreshRead(store)) = 3
    /\ sample.gpu_load_percent = Float(0, 1)
    /\ sample.gpu_temp_c = None
    /\ sample.cpu_temp_c = Float(91, 2)
    /\ Last(FreshRead(store))["gpu_load_percent"] = Float(0, 1)
    /\ Last(FreshRead(store))["gpu_temp_c"] = None
    /\ Last(FreshRead(store))["cpu_temp_c"] = Float(91, 2)

(***************************************************************************)
(* Claims about a failing store write (Spec).                              *)
(***************************************************************************)
\* C13: a failed store write is surfaced to the caller: when the INSERT or
\* its commit fails, insert_measurement raises to update_all_metrics (which
\* the exception leaves), and the committed rows are unchanged, then and
\* ever after; a call that returns has added its row.
C13_FailedWriteSurfaced ==
    [][/\ (pc = "insert" /\ pc' # pc) =>
             \/ /\ ins' = "ok"
                /\ pc' = "schedule"
                /\ Len(FreshRead(store')) = Len(FreshRead(store)) + 1
             \/ /\ ins' = "failed"
                /\ pc' = AfterException(tick)
                /\ timer' = timer
                /\ FreshRead(store') = FreshRead(store)
       /\ ins = "failed" => FreshRead(store') = FreshRead(store)]_vars

C13_Witness ==
    /\ ins = "failed"
    /\ tick = 2
    /\ pc = "mainloop"
    /\ store.pending # <<>>
    /\ Len(FreshRead(store)) = Len(opened.rows) + 1
    /\ TickRow["captured_at"] = 0

(***************************************************************************)
(* Claims about acquisition (Spec).                                        *)
(***************************************************************************)
\* The acquisition of the current tick has run and assembled its sample.
Acquired == world # NoWorld /\ sample.cpu_percent # None

\* C14: read_gpu_metrics gives (None, None) when the enumeration raises or
\* finds no GPU, and otherwise the first enumerated GPU alone (its load
\* fraction times 100, its temperature or None) however many there are;
\* with no GPU the tick still pushes and persists cpu_percent and
\* ram_percent, the GPU values being absent.
C14_FirstGpuOrNothing ==
    /\ (world # NoWorld /\ NoGpu(world)
            /\ ~read_cpu_temperature(world.platform).raised) => Acquired
    /\ Acquired =>
          IF NoGpu(world)
          THEN /\ sample.gpu_load_percent = None
               /\ sample.gpu_temp_c = None
               /\ sample.cpu_percent = world.cpu
               /\ sample.ram_percent = world.ram
               /\ pushes["cpu"] = 1 => Last(charts["cpu"].history) = world.cpu
               /\ pushes["ram"] = 1 => Last(charts["ram"].history) = world.ram
               /\ pc = "insert" => pushes["cpu"] = 1 /\ pushes["ram"] = 1
               /\ ins = "ok" =>
                     /\ TickRow["cpu_percent"] = world.cpu
                     /\ TickRow["ram_percent"] = world.ram
                     /\ TickRow["gpu_load_percent"] = None
                     /\ TickRow["gpu_temp_c"] = None
          ELSE /\ sample.gpu_load_percent = FMul(world.gpus.list[1].load, 100)
               /\ sample.gpu_temp_c = world.gpus.list[1].temperature

C14_Witness ==
    /\ Acquired
    /\ world.gpus.raises
    /\ tick = 2
    /\ ins = "ok"
    /\ TickRow["captured_at"] = 1
    /\ TickRow["cpu_percent"] = Float(0, 1)
    /\ TickRow["gpu_load_percent"] = None
    /\ TickRow["cpu_temp_c"] = Float(45, 1)
    /\ Len(opened.rows) = 1
    /\ store.rows[1]["gpu_load_percent"] = Float(50, 1)

\* The current tick has run to its end or has been left by an exception.
TickOver == world # NoWorld /\ pc \in {"mainloop", "exited", "crashed"}

\* C15: no error of a source escapes acquisition: whatever the sources do
\* in a tick, update_all_metrics completes acquisition without raising,
\* pushes one value to every series and appends one row with cpu_percent
\* and ram_percent populated.
C15_NoSourceErrorEscapes ==
    /\ world # NoWorld => Acquired
    /\ (TickOver /\ ins # "failed") =>
          /\ \A c \in ChartNames : pushes[c] = 1
          /\ ins = "ok"
          /\ TickRow["cpu_percent"] = world.cpu
          /\ TickRow["ram_percent"] = world.ram

(***************************************************************************)
(* Claims about startup and shutdown (Spec).                               *)
(***************************************************************************)
\* The construction of PcMonitorApp was left by an exception of the store.
RefusedToStart == pc = "crashed" /\ tick = 0

\* C16: if the creation of the schema or the addition of a missing column
\* fails when the store is opened at startup, the application refuses to
\* start: the failure leaves the construction of MetricsRepository and of
\* PcMonitorApp, no tick is executed or scheduled and no row is inserted;
\* an application that did start has the whole schema.
C16_SchemaFailureRefusesToStart ==
    /\ tick >= 1 =>
          /\ store.exists
          /\ Range(store.columns) = Range(CurrentColumns)
    /\ (tick = 0 /\ pc # "start") => RefusedToStart
    /\ RefusedToStart =>
          /\ timer = 0
          /\ world = NoWorld
          /\ ins = "none"
          /\ \A c \in ChartNames : pushes[c] = 0
          /\ Len(FreshRead(store)) = Len(opened.rows)
          /\ store.pending = <<>>
          /\ store.seq = opened.seq

C16_Witness ==
    /\ RefusedToStart
    /\ opened.columns = WithoutTempColumns
    /\ Len(store.columns) = 6
    /\ Len(FreshRead(store)) = 1
    /\ timer = 0

\* The store is closed exactly when on_close has run, which it has once,
\* the process has then left the event loop and no tick is pending.
ClosedOnlyOnExit ==
    /\ closes <= 1
    /\ closes = 1 <=> conn = "closed"
    /\ conn = "closed" <=> pc = "exited"
    /\ conn = "closed" => timer = 0 /\ store.pending = <<>>

\* C17: on orderly shutdown close() is called exactly once in the life of
\* the process, before the process exits, and after it no tick runs: no
\* statement of update_all_metrics, insert_measurement among them, is run
\* on a closed store, not even by a tick that was scheduled when the
\* shutdown began.
C17_ClosedOnceThenNoTick ==
    /\ []ClosedOnlyOnExit
    /\ [][conn # "closed"]_vars

C17_Witness ==
    /\ pc = "exited"
    /\ closes = 1
    /\ conn = "closed"
    /\ tick = 1
    /\ ins = "ok"
    /\ Len(FreshRead(store)) = Len(opened.rows) + 1

(***************************************************************************)
(* Claims about the order of the steps of a tick (Spec).                   *)
(***************************************************************************)
\* A statement of update_all_metrics is being run.
InTick ==
    pc \in {"acquire", "push_cpu", "push_ram", "push_gpu_load",
            "push_gpu_temp", "push_cpu_temp", "insert", "schedule"}

\* The current tick has pushed to every series and appended its row.
TickComplete == ins = "ok" /\ \A c \in ChartNames : pushes[c] = 1

\* At most one tick is pending, and none while a tick is run.
OnePendingAtMost ==
    /\ timer <= 1
    /\ InTick => timer = 0

\* C18: ticks never overlap: at most one tick is executing and at most one
\* further tick is pending on the timer; the next tick is scheduled only
\* as the last step of the current tick, so that tick k+1 begins only
\* after tick k has finished all its pushes and its store append.
C18_TicksNeverOverlap ==
    /\ []OnePendingAtMost
    /\ [][/\ timer' > timer =>
               (pc = "schedule" /\ pc' = "mainloop" /\ TickComplete)
          /\ (tick' > tick /\ tick >= 1) =>
               (pc = "mainloop" /\ TickComplete /\ timer = 1 /\ timer' = 0)]_vars

C18_Witness ==
    /\ tick = 2
    /\ pc = "mainloop"
    /\ timer = 1
    /\ TickComplete
    /\ Len(FreshRead(store)) = Len(opened.rows) + 2

\* The pushes made so far in the tick are the first of the fixed order.
PushedInOrder ==
    /\ pushes["ram"] = 1 => pushes["cpu"] = 1
    /\ pushes["gpu_load"] = 1 => pushes["ram"] = 1
    /\ pushes["gpu_temp"] = 1 => pushes["gpu_load"] = 1
    /\ pushes["cpu_temp"] = 1 => pushes["gpu_temp"] = 1

\* C19: within every tick the sinks are served in a fixed order: the five
\* pushes (CPU, RAM, GPU load, GPU temperature, CPU temperature) happen
\* before the store append of the tick, and the append happens before the
\* next tick is scheduled.
C19_PushesThenAppendThenSchedule ==
    /\ PushedInOrder
    /\ \A c \in ChartNames : pushes[c] <= 1
    /\ (pc = "insert" \/ ins # "none") => \A c \in ChartNames : pushes[c] = 1
    /\ (pc = "schedule" \/ timer > 0) => ins = "ok"
    /\ (InTick /\ pc # "schedule") => (ins = "none" /\ timer = 0)

C19_Witness ==
    /\ pc = "schedule"
    /\ tick = 2
    /\ timer = 0
    /\ ins = "ok"
    /\ \A c \in ChartNames : pushes[c] = 1
    /\ TickRow["captured_at"] = 1

\* A push or a store write of the current tick has been made or is next.
Consuming ==
    \/ pc \in {"push_cpu", "push_ram", "push_gpu_load", "push_gpu_temp",
                "push_cpu_temp", "insert", "schedule"}
    \/ \E c \in ChartNames : pushes[c] > 0
    \/ ins # "none"

\* C20: the sample is assembled before it is consumed: in every tick all
\* acquisitions (timestamp, CPU, RAM, GPU, CPU temperature) are complete
\* before the first push or store write of the tick, and the values pushed
\* and the values written to the row of the tick come from that one
\* acquisition, whatever the sources would give if read again.
C20_OneAcquisitionPerTick ==
    /\ Consuming => Acquired
    /\ Acquired =>
          /\ sample = Acquisition(world, now).sample
          /\ \A c \in ChartNames :
                pushes[c] = 1 => Last(charts[c].history) = Charted(sample)[c]
          /\ ins = "ok" => RowMatches(TickRow, sample)

C20_Witness ==
    /\ Acquired
    /\ ins = "ok"
    /\ tick = 2
    /\ host # world
    /\ host.cpu # world.cpu
    /\ NoGpu(host) /\ ~NoGpu(world)
    /\ TickRow["cpu_percent"] = world.cpu
    /\ TickRow["gpu_load_percent"] = Float(50, 1)
    /\ Last(charts["gpu_load"].history) = Float(50, 1)

(***************************************************************************)
(* Claims about the rows of the ticks (Spec).                              *)
(***************************************************************************)
\* The ticks whose append has succeeded: a tick begins only when the one
\* before has appended its row, so these are all the ticks begun but the
\* current one as long as its append has not succeeded.
SucceededTicks == IF ins = "ok" THEN tick ELSE IF tick = 0 THEN 0 ELSE tick - 1

\* The rows added since the store was opened.
AddedRows == SubSeq(FreshRead(store), Len(opened.rows) + 1, Len(FreshRead(store)))

\* One committed row for each tick whose append succeeded, with ids that
\* grow in the order of the ticks.
OneRowPerSucceededTick ==
    /\ Len(FreshRead(store)) = Len(opened.rows) + SucceededTicks
    /\ \A i \in 1..Len(AddedRows) : AddedRows[i]["captured_at"] = i - 1
    /\ \A i, j \in 1..Len(FreshRead(store)) :
          i < j => FreshRead(store)[i]["id"] < FreshRead(store)[j]["id"]
    /\ ins = "ok" => store.pending = <<>>

\* C21: every tick whose append succeeds adds exactly one committed row,
\* committed before the next tick begins: the rows added are as many as
\* the ticks whose append succeeded, the ids grow in tick order, and no
\* uncommitted row is pending when a tick starts.
C21_OneCommittedRowPerTick ==
    /\ []OneRowPerSucceededTick
    /\ [][/\ (pc = "insert" /\ ins' = "ok") =>
               /\ Len(FreshRead(store')) = Len(FreshRead(store)) + 1
               /\ IsPrefix(FreshRead(store), FreshRead(store'))
          /\ (pc # "insert" /\ pc # "start") => FreshRead(store') = FreshRead(store)
          /\ tick' > tick => (store.pending = <<>> /\ store'.pending = <<>>)]_vars

C21_Witness ==
    /\ pc = "exited"
    /\ tick = 2
    /\ ins = "ok"
    /\ Len(opened.rows) = 1
    /\ Len(AddedRows) = 2
    /\ AddedRows[1]["id"] = 2
    /\ AddedRows[2]["id"] = 3
    /\ AddedRows[2]["captured_at"] = 1

(***************************************************************************)
(* Further claims about the temperature functions (SpecTemp).              *)
(***************************************************************************)
\* A raw value scaled when its magnitude exceeds 1000.
ScaledByMagnitude(raw) == IF Abs(raw) > 1000 THEN Float(raw, 1000) ELSE Float(raw, 1)

\* The thermal-zone function was called on a tree of CPU zones with
\* numeric temp files.
SysfsCalledOnCpuNumberZones ==
    /\ ret.fn = "_read_cpu_temp_from_sysfs"
    /\ platform.sysfs.isdir
    /\ platform.sysfs.listable
    /\ \A i \in 1..Len(platform.sysfs.entries) :
          IsCpuNumberZone(platform.sysfs.entries[i])

\* C22: in the thermal-zone path every raw value whose magnitude exceeds
\* 1000 is divided by 1000 before the range check, negative values as
\* well as positive ones (a CPU zone reporting -5000 contributes -5.0).
C22_NegativeMillidegreesScaled ==
    SysfsCalledOnCpuNumberZones =>
        LET raws == [i \in 1..Len(platform.sysfs.entries) |->
                        platform.sysfs.entries[i].temp.raw]
            kept == SelectSeq([i \in 1..Len(raws) |-> ScaledByMagnitude(raws[i])],
                              LAMBDA v : Between(v, -20, 150))
        IN  ret.result.value = IF kept = <<>> THEN None ELSE Mean(kept)

\* t[i .. g-1] is a signed or unsigned decimal number: an optional sign,
\* digits, and possibly a dot with digits after it.
NumberSpan(t, i, g) ==
    LET b == IF At(t, i) \in {"+", "-"} THEN i + 1 ELSE i
    IN  \E k \in (b + 1)..g :
            /\ \A j \in b..(k - 1) : IsDigit(At(t, j))
            /\ \/ k = g
               \/ /\ At(t, k) = "."
                  /\ g > k + 1
                  /\ \A j \in (k + 1)..(g - 1) : IsDigit(At(t, j))

\* t[g .. e-1] is a degree marker with or without a unit letter after it.
DegreeTail(t, g, e) ==
    /\ At(t, g) = "deg"
    /\ \/ e = g + 2 /\ At(t, g + 1) \in {"C", "F", "K"}
       \/ e = g + 1 /\ At(t, g + 1) \notin {"C", "F", "K"}

\* t[g .. e-1] is whitespace or nothing, then a degree marker or nothing,
\* then the letter C.
CelsiusTail(t, g, e) ==
    \E w \in g..(e - 1) :
        /\ \A j \in g..(w - 1) : IsSpace(At(t, j))
        /\ \/ w = e - 1 /\ At(t, w) = "C"
           \/ w = e - 2 /\ At(t, w) = "deg" /\ At(t, w + 1) = "C"

Spans(t, i) == {<<g, e>> : g \in (i + 1)..(Len(t) + 1), e \in (i + 1)..(Len(t) + 3)}

\* The numbers of the tokens of a text, left to right, a token being a
\* number immediately followed by a degree marker.
RECURSIVE DegreeTokens(_, _)
DegreeTokens(t, i) ==
    IF i > Len(t) THEN <<>>
    ELSE LET found == {sp \in Spans(t, i) :
                          NumberSpan(t, i, sp[1]) /\ DegreeTail(t, sp[1], sp[2])}
         IN  IF found = {} THEN DegreeTokens(t, i + 1)
             ELSE LET sp == CHOOSE x \in found : TRUE
                  IN  <<SubSeq(t, i, sp[1] - 1)>> \o DegreeTokens(t, sp[2])

\* The numbers of the tokens of a text, left to right, a token being a
\* number followed by optional whitespace, an optional degree marker and C.
RECURSIVE CelsiusTokens(_, _)
CelsiusTokens(t, i) ==
    IF i > Len(t) THEN <<>>
    ELSE LET found == {sp \in Spans(t, i) :
                          NumberSpan(t, i, sp[1]) /\ CelsiusTail(t, sp[1], sp[2])}
         IN  IF found = {} THEN CelsiusTokens(t, i + 1)
             ELSE LET sp == CHOOSE x \in found : TRUE
                  IN  <<SubSeq(t, i, sp[1] - 1)>> \o CelsiusTokens(t, sp[2])

\* The in-range values of a list of number tokens.
PlausibleValues(tokens) ==
    SelectSeq([i \in 1..Len(tokens) |-> float_of_match(tokens[i])],
              LAMBDA v : Between(v, -20, 150))

\* C23: in the output of the external tool a token is extracted as a
\* candidate exactly when it is a signed or unsigned decimal number
\* immediately followed by a degree marker, the unit letter after the
\* marker being optional: a number with a degree marker and no letter is
\* extracted, a number followed by whitespace or directly by a letter is
\* not.
C23_DegreeMarkerRequired ==
    ret.fn = "_extract_temp_values_from_text" =>
        ret.result = PlausibleValues(DegreeTokens(platform.tool.stdout, 1))

\* C23 as amended: a token is extracted exactly when it is a signed or
\* unsigned decimal number followed by optional whitespace, an optional
\* degree marker and the letter C.
C23_CelsiusLetterRequired ==
    ret.fn = "_extract_temp_values_from_text" =>
        ret.result = PlausibleValues(CelsiusTokens(platform.tool.stdout, 1))

C23_Witness ==
    /\ ret.fn = "_extract_temp_values_from_text"
    /\ platform.tool.stdout = <<"4", "5", "deg", "1", "5", "0", " ", "C">>
    /\ ret.result = <<Float(150, 1)>>

MeanOrNone(values) == IF values = <<>> THEN None ELSE Mean(values)

\* The label of a zone cannot be had: no file, no read, or nothing in it.
LabelUnavailable(type) ==
    \/ type.kind # "text"
    \/ \A i \in 1..Len(type.text) : IsSpace(type.text[i])

\* The label has the word in it, in upper or lower case.
Mentions(type, word) ==
    /\ type.kind = "text"
    /\ \E i \in 1..Len(type.text) :
          \A k \in 1..Len(word) : Lower(At(type.text, i + k - 1)) = word[k]

CpuLabel(type) ==
    \/ Mentions(type, <<"c", "p", "u">>)
    \/ Mentions(type, <<"x", "8", "6">>)
    \/ Mentions(type, <<"p", "a", "c", "k", "a", "g", "e">>)

\* A thermal zone with a numeric temp file whose reading is in the range.
InRangeZone(entry) ==
    /\ startswith_thermal_zone(entry.name)
    /\ entry.temp.kind = "number"
    /\ Between(ScaledOnce(entry.temp.raw), -20, 150)

\* The readings of the zones that count, in the order of the list.
Included(entries) ==
    LET zones == SelectSeq(entries,
                     LAMBDA e : InRangeZone(e) /\ (LabelUnavailable(e.type) \/ CpuLabel(e.type)))
    IN  [i \in 1..Len(zones) |-> ScaledOnce(zones[i].temp.raw)]

SysfsListed == ret.fn = "_read_cpu_temp_from_sysfs" /\ platform.sysfs.isdir /\ platform.sysfs.listable

\* C24: the in-range reading of a zone is part of the mean exactly when the
\* label of the zone is unavailable (missing, unreadable or empty) or its
\* lower-cased label contains "cpu", "x86" or "package"; a zone whose label
\* is available and contains none of them never contributes, and the result
\* is no data when no zone is included.
C24_LabelDecidesInclusion ==
    (/\ SysfsListed
     /\ \A i \in 1..Len(platform.sysfs.entries) :
           InRangeZone(platform.sysfs.entries[i])) =>
        LET entries == platform.sysfs.entries
        IN  /\ ret.result.value = MeanOrNone(Included(entries))
            /\ (\A i \in 1..Len(entries) :
                   ~LabelUnavailable(entries[i].type) /\ ~CpuLabel(entries[i].type)) =>
                  ret.result.value = None

C24_Witness ==
    /\ SysfsListed
    /\ Len(platform.sysfs.entries) = 2
    /\ InRangeZone(platform.sysfs.entries[1])
    /\ InRangeZone(platform.sysfs.entries[2])
    /\ platform.sysfs.entries[1].temp.raw = 45
    /\ platform.sysfs.entries[2].type.kind = "text"
    /\ platform.sysfs.entries[2].type.text = <<"\n">>
    /\ ret.result.value = Float(105, 2)

\* The tool failed in one of the four ways: not installed, timed out, a
\* non-zero exit status, or nothing written.
ToolGaveNothing(tool) ==
    \/ tool.kind \in {"not_found", "timeout"}
    \/ tool.kind = "ran" /\ (tool.returncode # 0 \/ tool.stdout = <<>>)

\* The tool ran and wrote a temperature, none of them in the range.
OutOfRangeOutput == ToolRan(0, <<"2", "0", "0", ".", "0", "deg", "C">>)

\* C25: when the tool is not installed, times out, exits non-zero or writes
\* nothing, _read_cpu_temp_from_lm_sensors returns None without raising and
\* whatever the output holds, and read_cpu_temperature goes on to the
\* thermal zones exactly as when the tool ran and gave no in-range value.
C25_ToolFailuresAreNoData ==
    /\ (ret.fn = "_read_cpu_temp_from_lm_sensors" /\ ToolGaveNothing(platform.tool)) =>
          ~ret.result.raised /\ ret.result.value = None
    /\ (/\ ret.fn = "read_cpu_temperature"
        /\ ToolGaveNothing(platform.tool)
        /\ ~SensorApiYields(platform.psutil)) =>
          /\ ret.result.calls = <<"psutil", "lm_sensors", "sysfs">>
          /\ ret.result =
                read_cpu_temperature(Platform(platform.psutil, OutOfRangeOutput, platform.sysfs))

C25_Witness ==
    /\ ret.fn = "read_cpu_temperature"
    /\ platform.tool.kind = "ran"
    /\ platform.tool.returncode = 1
    /\ Candidates(platform.tool.stdout) = <<Float(55, 1)>>
    /\ ret.result.calls = <<"psutil", "lm_sensors", "sysfs">>
    /\ ret.result.value = Float(45, 1)

\* The readings of the sensor API that are not null, group by group.
RECURSIVE Readings(_)
Readings(groups) ==
    IF groups = <<>> THEN <<>>
    ELSE SelectSeq(Head(groups), LAMBDA current : current # None) \o Readings(Tail(groups))

\* C26: when the sensor API gives a reading, the result is the mean of
\* every non-null reading of all groups, no range applied (a reading of 200
\* is part of it and the fallbacks are not tried); an exception or an empty
\* result of the API counts as no reading.
C26_MeanOfAllReadings ==
    ret.fn = "read_cpu_temperature" =>
        LET readings == IF platform.psutil.raises THEN <<>>
                        ELSE Readings(platform.psutil.groups)
        IN  IF readings # <<>>
            THEN /\ ~ret.result.raised
                 /\ ret.result.value = Mean(readings)
                 /\ ret.result.calls = <<"psutil">>
            ELSE Invoked("lm_sensors")

C26_Witness ==
    /\ ret.fn = "read_cpu_temperature"
    /\ platform.psutil.groups = << <<Float(200, 1)>> >>
    /\ ToolYields(platform.tool)
    /\ ret.result.calls = <<"psutil">>
    /\ ret.result.value = Float(200, 1)

TempFileFails(entry) == entry.temp.kind \in {"missing", "unreadable", "garbage"}

Reverse(l) == [i \in 1..Len(l) |-> l[Len(l) + 1 - i]]

====
